---- MODULE Spec2Model ----
(***************************************************************************)
(* EpochProtos: the message-building API (Scalar, Line, Table, TableData,  *)
(* CardDef, ChartDef) as the repository's two programs drive it:           *)
(*   src/example_consumer/main.cpp  and  src/test/test_cpp.cpp.            *)
(* Every operation is one call (or one call chain on a freshly added       *)
(* element) of those programs, with its arguments drawn from small sets.   *)
(***************************************************************************)
EXTENDS Integers, Sequences, FiniteSets, TLC

\* ------------------------------------------------------------- bounds
\* Payloads, loop indices and card groups range over 0 .. MaxVal.
MaxVal == 1

\* API calls per run of one widget's program (SpecScalar, SpecLines, SpecTable).
MaxCalls == 5

\* API calls per run of the whole document API (Spec).
MaxDocCalls == 3

\* Columns of a table (ColumnIds names three).
MaxCols == 2

Vals == 0 .. MaxVal

\* ------------------------------------------------------------- Scalar
\* The value fields the programs set and query on a Scalar.
Kinds == {"string_value", "decimal_value", "percent_value", "double_value"}

\* The presence queries: one per value field, plus the empty ("null") state.
HasQueries == Kinds \cup {"null"}

\* epoch_folio::Scalar scalar;  -- nothing set, payload zero.
DefaultScalar == [has |-> {}, val |-> 0]

\* A setter that marks its field present without clearing the one present before.
set_value_keeping(s, k, v) == [has |-> s.has \cup {k}, val |-> v]

\* set_<k>_value(v): the field k becomes the one present field.
set_value(s, k, v) == [has |-> {k}, val |-> v]

set_decimal_value(s, v) == set_value(s, "decimal_value", v)

set_percent_value(s, v) == set_value(s, "percent_value", v)

set_string_value(s, v) == set_value(s, "string_value", v)

set_double_value(s, v) == set_value(s, "double_value", v)

\* has_<k>_value()
has_value(s, k) == k \in s.has

\* The empty ("null") state: no value field is present.
is_null(s) == s.has = {}

\* <k>_value(): the payload when k is the present field, TypeMismatch otherwise.
read_value(s, k) ==
    IF k \in s.has
    THEN [kind |-> k, status |-> "OK", val |-> s.val]
    ELSE [kind |-> k, status |-> "TypeMismatch", val |-> 0]

NoRead == [kind |-> "none", status |-> "OK", val |-> 0]

\* ------------------------------------------------------------- Point, Line
\* point->mutable_x()->set_decimal_value(..); point->mutable_y()->set_decimal_value(..)
\* (the payloads of a point are kept in tenths, so that they stay integers)
MakePoint(x, y) ==
    [x |-> set_decimal_value(DefaultScalar, x), y |-> set_decimal_value(DefaultScalar, y)]

LineNames == {"Portfolio", "S&P 500"}

\* The loop bodies of main.cpp, in tenths: x = i * 30.0, and
\* y = i * 2.5 + (i % 2 ? 1.0 : -0.5) for the portfolio line,
\* y = i * 1.8 + (i % 2 ? 0.5 : -0.2) for the benchmark line.
PortfolioPoint(i) == MakePoint(300 * i, 25 * i + (IF i % 2 = 1 THEN 10 ELSE -5))

BenchmarkPoint(i) == MakePoint(300 * i, 18 * i + (IF i % 2 = 1 THEN 5 ELSE -2))

PointFor(n, i) == IF n = "Portfolio" THEN PortfolioPoint(i) ELSE BenchmarkPoint(i)

\* An append that keeps the points ordered by x instead of by arrival.
RECURSIVE InsertByX(_, _)
InsertByX(data, p) ==
    IF data = <<>> THEN <<p>>
    ELSE IF p.x.val < Head(data).x.val THEN <<p>> \o data
    ELSE <<Head(data)>> \o InsertByX(Tail(data), p)

\* line->add_data(): the new point goes after every point already there.
add_data(data, p) == Append(data, p)

\* lines_chart.add_lines(); line->set_name(n): a new, empty line at the end.
add_lines(ls, n) == Append(ls, [name |-> n, data |-> <<>>])

\* ------------------------------------------------------------- Table, TableData
ColumnTypes == {"EPOCH_FOLIO_TYPE_STRING", "EPOCH_FOLIO_TYPE_DECIMAL", "EPOCH_FOLIO_TYPE_PERCENT"}

ColumnIds == <<"metric", "portfolio", "benchmark">>

\* The value fields main.cpp puts into table rows and cards.
TableKinds == {"string_value", "decimal_value", "percent_value"}

\* The value field that goes with a declared type (as the cards of main.cpp pair them).
KindOfType(t) ==
    CASE t = "EPOCH_FOLIO_TYPE_STRING" -> "string_value"
      [] t = "EPOCH_FOLIO_TYPE_DECIMAL" -> "decimal_value"
      [] t = "EPOCH_FOLIO_TYPE_PERCENT" -> "percent_value"

TypeOfKind(k) == CHOOSE t \in ColumnTypes : KindOfType(t) = k

\* summary_table.add_columns(); col->set_id(..); col->set_type(t)
add_columns(cols, t) == Append(cols, [id |-> ColumnIds[Len(cols) + 1], type |-> t])

\* for (col : summary_table.columns()) table_data->add_schema()->CopyFrom(col);
add_schema(sch, cols) == sch \o cols

\* ------------------------------------------------------------- state
VARIABLES
    pc,          \* "Building" until main prints its closing lines, then "done"
    calls,       \* API calls made so far
    lastCall,    \* the name of the last API call
    status,      \* the outcome of the last API call
    scalar,      \* test_cpp.cpp: epoch_folio::Scalar scalar
    readResult,  \* what the last accessor call on scalar returned
    lines,       \* LinesDef.lines
    appended,    \* history: per line, the points handed to add_data, in call order
    chart,       \* ChartDef: id, title, type, category, x_axis, y_axis
    columns,     \* Table.columns
    schema,      \* Table.data.schema
    rows,        \* Table.data.rows
    submitted,   \* history: the rows and values handed to add_rows / add_values
    cards,       \* CardDef.data
    group_size   \* CardDef.group_size

scalarVars == <<scalar, readResult>>

lineVars == <<lines, appended>>

tableVars == <<columns, schema, rows, submitted>>

cardVars == <<cards, group_size>>

vars ==
    <<pc, calls, lastCall, status, scalar, readResult, lines, appended, chart,
      columns, schema, rows, submitted, cards, group_size>>

\* ------------------------------------------------------------- rows
\* add_rows() that refuses a row whose arity differs from the schema's.
add_rows_failfast(rs) ==
    IF Len(schema) = 0
    THEN [rows |-> Append(rs, <<>>), status |-> "OK"]
    ELSE [rows |-> rs, status |-> "SchemaMismatch"]

\* table_data->add_rows(): a new, empty row at the end; the call cannot fail.
add_rows(rs) == [rows |-> Append(rs, <<>>), status |-> "OK"]

\* add_values() that refuses a value whose field is not the one the column declares.
add_values_failfast(rs, s) ==
    LET i == Len(rs[Len(rs)]) + 1 IN
    IF i <= Len(schema) /\ s.has = {KindOfType(schema[i].type)}
    THEN [rows |-> [rs EXCEPT ![Len(rs)] = Append(@, s)], status |-> "OK"]
    ELSE [rows |-> rs, status |-> IF i > Len(schema) THEN "SchemaMismatch" ELSE "TypeMismatch"]

\* row->add_values()->set_<k>_value(v): the value goes to the end of the row the
\* caller holds (the one add_rows returned last); the call cannot fail.
add_values(rs, s) == [rows |-> [rs EXCEPT ![Len(rs)] = Append(@, s)], status |-> "OK"]

\* ------------------------------------------------------------- ChartDef, CardDef
WidgetTypes ==
    {"EPOCH_FOLIO_DASHBOARD_WIDGET_LINES", "EPOCH_FOLIO_DASHBOARD_WIDGET_DATA_TABLE",
     "EPOCH_FOLIO_DASHBOARD_WIDGET_CARD"}

Categories == {"EPOCH_FOLIO_CATEGORY_STRATEGY_BENCHMARK", "EPOCH_FOLIO_CATEGORY_POSITIONS"}

AxisTypes == {"AXIS_TYPE_LINEAR", "AXIS_TYPE_DATETIME"}

ChartFields == {"id", "title", "type", "category", "x_axis", "y_axis"}

\* The values main.cpp and test_cpp.cpp hand to each setter.
FieldValues(f) ==
    CASE f = "id" -> {"portfolio_performance", "test_chart"}
      [] f = "title" -> {"Portfolio Performance vs Benchmark"}
      [] f = "type" -> WidgetTypes
      [] f = "category" -> Categories
      [] f \in {"x_axis", "y_axis"} -> AxisTypes

DefaultChart == [f \in ChartFields |-> ""]

\* chart.set_id / set_title / set_type / set_category, mutable_x_axis()->set_type:
\* the field takes the value; the other fields keep theirs.
set_field(c, f, v) == [c EXCEPT ![f] = v]

\* performance_cards.add_data(); card->set_title; card->mutable_value()->set_<k>_value(v);
\* card->set_type(t); card->set_group(g)
add_card(cs, k, v, g) ==
    Append(cs, [value |-> set_value(DefaultScalar, k, v), type |-> TypeOfKind(k), group |-> g])

\* ------------------------------------------------------------- Init
\* Every message as its default constructor leaves it.
Init ==
    /\ pc = "Building"
    /\ calls = 0
    /\ lastCall = "none"
    /\ status = "OK"
    /\ scalar = DefaultScalar
    /\ readResult = NoRead
    /\ lines = <<>>
    /\ appended = <<>>
    /\ chart = DefaultChart
    /\ columns = <<>>
    /\ schema = <<>>
    /\ rows = <<>>
    /\ submitted = <<>>
    /\ cards = <<>>
    /\ group_size = 0

\* ------------------------------------------------------------- actions
\* scalar.set_<k>_value(v)
SetScalar ==
    \E k \in Kinds, v \in Vals :
        /\ scalar' = set_value(scalar, k, v)
        /\ lastCall' = "set_value"
        /\ status' = "OK"
        /\ UNCHANGED <<readResult, lineVars, chart, tableVars, cardVars>>

\* scalar.<k>_value()
ReadScalar ==
    \E k \in Kinds :
        /\ readResult' = read_value(scalar, k)
        /\ lastCall' = "read_value"
        /\ status' = readResult'.status
        /\ UNCHANGED <<scalar, lineVars, chart, tableVars, cardVars>>

\* lines_chart.add_lines(); line->set_name(n)
AddLines ==
    \E n \in LineNames :
        /\ lines' = add_lines(lines, n)
        /\ appended' = Append(appended, <<>>)
        /\ lastCall' = "add_lines"
        /\ status' = "OK"
        /\ UNCHANGED <<scalarVars, chart, tableVars, cardVars>>

\* line->add_data() on a line added before, with the point of loop index i
AddData ==
    \E l \in 1 .. Len(lines), i \in Vals :
        LET p == PointFor(lines[l].name, i) IN
        /\ lines' = [lines EXCEPT ![l].data = add_data(@, p)]
        /\ appended' = [appended EXCEPT ![l] = @ \o <<p>>]
        /\ lastCall' = "add_data"
        /\ status' = "OK"
        /\ UNCHANGED <<scalarVars, chart, tableVars, cardVars>>

\* chart.set_<f>(v)
SetField ==
    \E f \in ChartFields :
        \E v \in FieldValues(f) :
            /\ chart' = set_field(chart, f, v)
            /\ lastCall' = "set_field"
            /\ status' = "OK"
            /\ UNCHANGED <<scalarVars, lineVars, tableVars, cardVars>>

\* summary_table.add_columns() and the setters on the new column
AddColumns ==
    \E t \in ColumnTypes :
        /\ Len(columns) < MaxCols
        /\ columns' = add_columns(columns, t)
        /\ lastCall' = "add_columns"
        /\ status' = "OK"
        /\ UNCHANGED <<schema, rows, submitted, scalarVars, lineVars, chart, cardVars>>

\* the loop that copies the table's columns into its data's schema
AddSchema ==
    /\ columns # <<>>
    /\ Len(schema) + Len(columns) <= MaxCols
    /\ schema' = add_schema(schema, columns)
    /\ lastCall' = "add_schema"
    /\ status' = "OK"
    /\ UNCHANGED <<columns, rows, submitted, scalarVars, lineVars, chart, cardVars>>

\* table_data->add_rows()
AddRows ==
    LET r == add_rows(rows) IN
    /\ rows' = r.rows
    /\ status' = r.status
    /\ submitted' = Append(submitted, <<>>)
    /\ lastCall' = "add_rows"
    /\ UNCHANGED <<columns, schema, scalarVars, lineVars, chart, cardVars>>

\* row->add_values()->set_<k>_value(v) on the row add_rows returned last
AddValues ==
    \E k \in TableKinds, v \in Vals :
        LET s == set_value(DefaultScalar, k, v)
            r == add_values(rows, s)
        IN
        /\ rows # <<>>
        /\ rows' = r.rows
        /\ status' = r.status
        /\ submitted' = [submitted EXCEPT ![Len(submitted)] = @ \o <<s>>]
        /\ lastCall' = "add_values"
        /\ UNCHANGED <<columns, schema, scalarVars, lineVars, chart, cardVars>>

\* performance_cards.set_group_size(g)
SetGroupSize ==
    \E g \in 1 .. MaxVal + 1 :
        /\ group_size' = g
        /\ lastCall' = "set_group_size"
        /\ status' = "OK"
        /\ UNCHANGED <<cards, scalarVars, lineVars, chart, tableVars>>

\* performance_cards.add_data() and the setters on the new card
AddCard ==
    \E k \in {"decimal_value", "percent_value"}, v \in Vals, g \in Vals :
        /\ cards' = add_card(cards, k, v, g)
        /\ lastCall' = "add_card"
        /\ status' = "OK"
        /\ UNCHANGED <<group_size, scalarVars, lineVars, chart, tableVars>>

\* main prints "All protobuf models created and populated correctly." and returns 0,
\* whatever was built.
Finish ==
    /\ pc = "Building"
    /\ pc' = "done"
    /\ UNCHANGED <<calls, lastCall, status, scalarVars, lineVars, chart, tableVars, cardVars>>

\* One more API call, while the program is still building.
Call(budget) ==
    /\ pc = "Building"
    /\ calls < budget
    /\ calls' = calls + 1
    /\ pc' = pc

\* ------------------------------------------------------------- specifications
\* The whole document API.
Next ==
    \/ Call(MaxDocCalls) /\ SetScalar
    \/ Call(MaxDocCalls) /\ ReadScalar
    \/ Call(MaxDocCalls) /\ AddLines
    \/ Call(MaxDocCalls) /\ AddData
    \/ Call(MaxDocCalls) /\ SetField
    \/ Call(MaxDocCalls) /\ AddColumns
    \/ Call(MaxDocCalls) /\ AddSchema
    \/ Call(MaxDocCalls) /\ AddRows
    \/ Call(MaxDocCalls) /\ AddValues
    \/ Call(MaxDocCalls) /\ SetGroupSize
    \/ Call(MaxDocCalls) /\ AddCard
    \/ Finish

Spec == Init /\ [][Next]_vars

\* The Scalar of test_cpp.cpp alone.
NextScalar ==
    \/ Call(MaxCalls) /\ SetScalar
    \/ Call(MaxCalls) /\ ReadScalar

SpecScalar == Init /\ [][NextScalar]_vars

\* The LinesDef of main.cpp alone.
NextLines ==
    \/ Call(MaxCalls) /\ AddLines
    \/ Call(MaxCalls) /\ AddData

SpecLines == Init /\ [][NextLines]_vars

\* The summary table of main.cpp alone, up to the program's end.
NextTable ==
    \/ Call(MaxCalls) /\ AddColumns
    \/ Call(MaxCalls) /\ AddSchema
    \/ Call(MaxCalls) /\ AddRows
    \/ Call(MaxCalls) /\ AddValues
    \/ Finish

SpecTable == Init /\ [][NextTable]_vars

\* ------------------------------------------------------------- claims
\* A row agrees with a schema: same length, and at every position the value's
\* present field is the one the column's type declares.
RowMatches(sch, row) ==
    /\ Len(row) = Len(sch)
    /\ \A i \in 1 .. Len(row) : row[i].has = {KindOfType(sch[i].type)}

\* A value sits in a column whose declared type asks for another field.
TypeClash(sch, rs) ==
    \E r \in 1 .. Len(rs) :
        \E i \in 1 .. Len(rs[r]) :
            i <= Len(sch) /\ rs[r][i].has # {KindOfType(sch[i].type)}

\* C1 (as stated), for a table whose schema has been set: a value is taken only
\* when it agrees with the schema;
\* a value that does not agree (no column at its position, or another field than
\* the column declares) makes the call fail with SchemaMismatch or TypeMismatch
\* and leaves the rows as they were.
C1_AddRowOnlyIfMatching ==
    [][(lastCall' = "add_values" /\ calls' # calls /\ schema # <<>>) =>
        LET row == submitted'[Len(submitted')]
            i == Len(row)
            fits == i <= Len(schema) /\ row[i].has = {KindOfType(schema[i].type)}
        IN  IF fits
            THEN status' = "OK" /\ rows' = [rows EXCEPT ![Len(rows)] = Append(@, row[i])]
            ELSE status' \in {"SchemaMismatch", "TypeMismatch"} /\ rows' = rows]_vars

\* C1 (amended): add_rows always appends one empty row and add_values always
\* appends the given Scalar to that row, whether or not length and fields agree
\* with the schema: the rows are exactly what the caller handed in, in order, the
\* row count is the number of add_rows calls, and neither call reports a failure.
C1_AddRowAlwaysAppends ==
    /\ rows = submitted
    /\ lastCall \in {"add_rows", "add_values"} => status = "OK"

\* C1 witness: a value of the wrong field has just been appended to a row.
C1_MismatchAppended ==
    /\ lastCall = "add_values"
    /\ status = "OK"
    /\ TypeClash(schema, rows)
    /\ \E r \in 1 .. Len(rows) : Len(rows[r]) > Len(schema)

\* C2: decimal and percent are not interchangeable: a table that the program
\* has accepted (it reports its models "populated correctly") never holds a
\* decimal value in a column declared PERCENT.
C2_PercentColumnNeverHoldsDecimal ==
    pc = "done" =>
        \A r \in 1 .. Len(rows) :
            \A i \in 1 .. Len(rows[r]) :
                (i <= Len(schema) /\ schema[i].type = "EPOCH_FOLIO_TYPE_PERCENT")
                    => rows[r][i].has # {"decimal_value"}

\* The answer of a presence query, "null" included.
Answers(s, q) == IF q = "null" THEN is_null(s) ELSE has_value(s, q)

C9_BuildersNeverFail == lastCall # "read_value" => status = "OK"

\* C9 witness: an append has just succeeded on a table whose rows disagree with
\* its schema.
C9_AppendedToInvalidTable ==
    /\ pc = "Building"
    /\ lastCall \in {"add_rows", "add_values"}
    /\ status = "OK"
    /\ schema # <<>>
    /\ \E r \in 1 .. Len(rows) : ~RowMatches(schema, rows[r])

\* C10: every line holds exactly the points appended to it, in the order of the
\* calls: its size is the number of appends, the point at index i is the i-th
\* appended, and an append to one line changes no other line.
C10_AppendOrderKept ==
    /\ Len(lines) = Len(appended)
    /\ \A l \in 1 .. Len(lines) : lines[l].data = appended[l]

\* C10 witness: a line holds a later x before an earlier one and a repeated
\* point, beside a second line.
C10_UnsortedLine ==
    /\ Len(lines) = 2
    /\ \E l \in 1 .. 2 :
        /\ Len(lines[l].data) = 3
        /\ lines[l].data[1].x.val > lines[l].data[2].x.val
        /\ lines[l].data[1] = lines[l].data[3]

====
